---------------------------- MODULE Spec2Model ----------------------------
(***************************************************************************)
(* A model of the two localisation tools of the repository:                *)
(*   tools/check_text_length.py  the text length validator                 *)
(*   tools/gen_viet_font.py      the glyph atlas generator                 *)
(* Three specifications share the module: SpecLen runs get_visible_length  *)
(* on bounded texts, SpecCheck runs the validator's main, SpecGen runs     *)
(* create_viet_font. The variables of the components a specification does  *)
(* not run stay at their idle values.                                      *)
(***************************************************************************)
EXTENDS Integers, Sequences, FiniteSets

VARIABLES
  \* get_visible_length
  text, visible, visible_len, lpc,
  \* check_text_length.main
  args_files, tree_files, max_length, warn_only,
  file_i, all_errors, stdout, exit_code, pc,
  \* gen_viet_font.create_viet_font
  base_exists, original, font, font_src,
  img, img_bw, items_i, chars_drawn, disk, gout, gexit, gpc

lenVars == <<text, visible, visible_len, lpc>>
chkVars == <<args_files, tree_files, max_length, warn_only,
             file_i, all_errors, stdout, exit_code, pc>>
genVars == <<base_exists, original, font, font_src,
             img, img_bw, items_i, chars_drawn, disk, gout, gexit, gpc>>
vars == <<lenVars, chkVars, genVars>>

Min(S) == CHOOSE m \in S : \A n \in S : m <= n

(***************************************************************************)
(* Bounds of the model.                                                    *)
(***************************************************************************)
\* longest text handed to get_visible_length in SpecLen
MaxLen == 5
\* most files of one validator run
MaxFiles == 2
\* most lines of one file
MaxLines == 2

(***************************************************************************)
(* Texts are sequences of characters (code points, as Python's str).       *)
(***************************************************************************)
Alphabet == {"<", ">", "A", "B"}
Texts == UNION {[1..n -> Alphabet] : n \in 0..MaxLen}

(***************************************************************************)
(* CONTROL_CODE_PATTERN = re.compile(r"<[^>]+>") tried at position i of t: *)
(* the index of the closing '>' of the match that starts at i, 0 when the  *)
(* pattern does not match there. '<', then the longest run of characters   *)
(* other than '>' (greedy, at least one, '<' included), then '>': the run  *)
(* ends right before the first '>' after i, so the match exists iff that   *)
(* '>' exists and is not the character next to the '<'.                    *)
(***************************************************************************)
\* the same for the pattern <[^>]*>, which also matches "<>"
MatchEndStar(t, i) ==
  IF t[i] # "<" THEN 0
  ELSE LET closers == {j \in (i+1)..Len(t) : t[j] = ">"}
       IN  IF closers = {} THEN 0 ELSE Min(closers)

\* the same for a pattern whose closing '>' is optional at the end of the text
MatchEndOpen(t, i) ==
  IF t[i] # "<" \/ i = Len(t) THEN 0
  ELSE LET closers == {j \in (i+1)..Len(t) : t[j] = ">"}
       IN  IF closers = {} THEN Len(t)
           ELSE IF Min(closers) >= i + 2 THEN Min(closers) ELSE 0

MatchEnd(t, i) ==
  IF t[i] # "<" THEN 0
  ELSE LET closers == {j \in (i+1)..Len(t) : t[j] = ">"}
       IN  IF closers = {} THEN 0
           ELSE IF Min(closers) >= i + 2 THEN Min(closers) ELSE 0

(***************************************************************************)
(* CONTROL_CODE_PATTERN.sub("", t) from position i on: the scan goes left  *)
(* to right, drops each match and resumes after it, and keeps every        *)
(* character at which the pattern does not match.                          *)
(***************************************************************************)
RECURSIVE SubFrom(_, _)
SubFrom(t, i) ==
  IF i > Len(t) THEN << >>
  ELSE IF MatchEnd(t, i) > 0 THEN SubFrom(t, MatchEnd(t, i) + 1)
  ELSE <<t[i]>> \o SubFrom(t, i + 1)

ControlCodeSub(t) == SubFrom(t, 1)

get_visible_length(t) == Len(ControlCodeSub(t))

(***************************************************************************)
(* SpecLen: one call of get_visible_length on a bounded text.              *)
(***************************************************************************)
LenIdle ==
  /\ text = << >> /\ visible = << >> /\ visible_len = 0 /\ lpc = "idle"

ChkIdle ==
  /\ args_files = << >> /\ tree_files = << >>
  /\ max_length = 0 /\ warn_only = FALSE
  /\ file_i = 0 /\ all_errors = << >> /\ stdout = << >>
  /\ exit_code = -1 /\ pc = "idle"

GenIdle ==
  /\ base_exists = FALSE /\ original = << >> /\ font = << >>
  /\ font_src = "none" /\ img = << >> /\ img_bw = << >>
  /\ items_i = 0 /\ chars_drawn = 0 /\ disk = << >> /\ gout = << >>
  /\ gexit = -1 /\ gpc = "idle"

InitLen ==
  /\ text \in Texts
  /\ visible = << >>
  /\ visible_len = 0
  /\ lpc = "call"
  /\ ChkIdle /\ GenIdle

GetVisibleLength ==
  /\ lpc = "call"
  /\ visible' = ControlCodeSub(text)
  /\ visible_len' = Len(visible')
  /\ lpc' = "return"
  /\ UNCHANGED <<text, chkVars, genVars>>

NextLen == GetVisibleLength

SpecLen == InitLen /\ [][NextLen]_vars

(***************************************************************************)
(* check_text_length.py: the validator.                                    *)
(***************************************************************************)
MAX_LINE_LENGTH == 18

\* the basenames of the modelled files: an ordinary one and an excluded one
FileNames == {"a.asm", "name_input_chars.asm"}

EXCLUDE_FILES == {"name_input_chars.asm", "mail_input_chars.asm"}

\* n plain characters
Plain(n) == [k \in 1..n |-> "A"]

\* The literals of the modelled files: plain ones whose width lies around
\* the default maximum, and one that is longer in characters than in width.
Literals ==
  {Plain(n) : n \in (MAX_LINE_LENGTH - 1)..(MAX_LINE_LENGTH + 2)}
    \cup {<<"<", "B", ">">> \o Plain(MAX_LINE_LENGTH)}

\* A line, as DB_STRING_PATTERN sees it: a db declaration with its quoted
\* literal, or any other line.
Lines ==
  {[db |-> TRUE, text |-> l] : l \in Literals}
    \cup {[db |-> FALSE, text |-> << >>]}

SeqsUpTo(S, n) == UNION {[1..k -> S] : k \in 0..n}

\* A path and what the file system holds there.
ReadableFiles ==
  {[name |-> nm, status |-> "ok", lines |-> ls] :
     nm \in FileNames, ls \in SeqsUpTo(Lines, MaxLines)}
BadFiles(statuses) ==
  {[name |-> nm, status |-> st, lines |-> << >>] :
     nm \in FileNames, st \in statuses}

\* DB_STRING_PATTERN.match(line): whether the line is a db declaration
DbMatch(line) == line.db
\* match.group(1)
DbGroup1(line) == line.text

\* the threshold check_file compares with: the module constant, not
\* args.max_length
CheckFileMax == MAX_LINE_LENGTH

\* check_file's loop from line k on; fi is the file's path
RECURSIVE CheckLinesFrom(_, _, _)
CheckLinesFrom(f, fi, k) ==
  IF k > Len(f.lines) THEN << >>
  ELSE LET line == f.lines[k]
           visible_length == get_visible_length(DbGroup1(line))
       IN  (IF DbMatch(line) /\ visible_length > CheckFileMax
              THEN <<[file |-> fi, line |-> k, text |-> DbGroup1(line),
                      length |-> visible_length, max |-> CheckFileMax]>>
              ELSE << >>)
             \o CheckLinesFrom(f, fi, k + 1)

\* open(filepath) succeeds
CanOpen(f) == f.status = "ok"

check_file(f, fi) == CheckLinesFrom(f, fi, 1)

\* main: the files the run walks through
Explicit == args_files # << >>
Inputs == IF Explicit THEN args_files ELSE tree_files

\* main: whether check_file is called on f
IsChecked(f) ==
  IF Explicit THEN f.status # "missing"   \* os.path.isfile(filepath)
  ELSE f.name \notin EXCLUDE_FILES

InitCheck ==
  /\ max_length \in (MAX_LINE_LENGTH - 1)..(MAX_LINE_LENGTH + 1)
  /\ warn_only \in BOOLEAN
  /\ \/ /\ args_files \in
             SeqsUpTo(ReadableFiles \cup BadFiles({"missing", "unreadable"}),
                      MaxFiles) \ {<< >>}
        /\ tree_files = << >>
     \/ /\ args_files = << >>
        \* what rglob("*.asm") finds exists
        /\ tree_files \in
             SeqsUpTo(ReadableFiles \cup BadFiles({"unreadable"}), MaxFiles)
  /\ file_i = 1
  /\ all_errors = << >>
  /\ stdout = << >>
  /\ exit_code = -1
  /\ pc = "scan"
  /\ LenIdle /\ GenIdle

\* one turn of the loop: check_file returns and all_errors is extended
ScanCheck ==
  /\ pc = "scan" /\ file_i <= Len(Inputs)
  /\ IsChecked(Inputs[file_i]) /\ CanOpen(Inputs[file_i])
  /\ all_errors' = all_errors \o check_file(Inputs[file_i], file_i)
  /\ file_i' = file_i + 1
  /\ UNCHANGED <<args_files, tree_files, max_length, warn_only,
                 stdout, exit_code, pc, lenVars, genVars>>

\* one turn of the loop: the file is passed over
ScanSkip ==
  /\ pc = "scan" /\ file_i <= Len(Inputs)
  /\ ~IsChecked(Inputs[file_i])
  /\ file_i' = file_i + 1
  /\ UNCHANGED <<args_files, tree_files, max_length, warn_only,
                 all_errors, stdout, exit_code, pc, lenVars, genVars>>

\* one turn of the loop: open() raises in check_file and nothing catches
\* it; the interpreter prints the traceback on stderr and exits with 1
ScanRaise ==
  /\ pc = "scan" /\ file_i <= Len(Inputs)
  /\ IsChecked(Inputs[file_i]) /\ ~CanOpen(Inputs[file_i])
  /\ pc' = "crashed"
  /\ exit_code' = 1
  /\ UNCHANGED <<args_files, tree_files, max_length, warn_only,
                 file_i, all_errors, stdout, lenVars, genVars>>

\* "Filter by max_length if different from default"
FilterErrors(errors) ==
  IF max_length # MAX_LINE_LENGTH
    THEN LET kept == SelectSeq(errors, LAMBDA e : e.length > max_length)
         IN  [k \in 1..Len(kept) |-> [kept[k] EXCEPT !.max = max_length]]
    ELSE errors

Filter ==
  /\ pc = "scan" /\ file_i > Len(Inputs)
  /\ all_errors' = FilterErrors(all_errors)
  /\ pc' = "report"
  /\ UNCHANGED <<args_files, tree_files, max_length, warn_only,
                 file_i, stdout, exit_code, lenVars, genVars>>

\* the block printed for each error
ErrorBlocks(errors) ==
  [k \in 1..Len(errors) |->
     [kind |-> "error", file |-> errors[k].file, line |-> errors[k].line,
      length |-> errors[k].length, max |-> errors[k].max,
      text |-> errors[k].text]]

\* sys.exit's argument at the end of main
ExitCode(errors) == IF errors # << >> /\ ~warn_only THEN 1 ELSE 0

\* "Report errors" to the end of main
Report ==
  /\ pc = "report"
  /\ stdout' =
       IF all_errors # << >>
         THEN <<[kind |-> "found", n |-> Len(all_errors), max |-> max_length]>>
                \o ErrorBlocks(all_errors)
         ELSE <<[kind |-> "all_within", max |-> max_length]>>
  /\ exit_code' = ExitCode(all_errors)
  /\ pc' = "exited"
  /\ UNCHANGED <<args_files, tree_files, max_length, warn_only,
                 file_i, all_errors, lenVars, genVars>>

NextCheck == ScanCheck \/ ScanSkip \/ ScanRaise \/ Filter \/ Report

SpecCheck == InitCheck /\ [][NextCheck]_vars

(***************************************************************************)
(* gen_viet_font.py: the atlas generator.                                  *)
(***************************************************************************)
\* the base atlas of a run is TileCols x TileRows tiles
TileCols == 16
TileRows == 2
\* the largest ink box a modelled font renders, in pixels
MaxInk == 10

tile_size == 8
Width == TileCols * tile_size
Height == TileRows * tile_size
Pixels == 0..(Width * Height - 1)
PX(p) == p % Width
PY(p) == p \div Width

\* The keys of VIET_CHAR_POSITIONS in the order of the dict: 0..27, 29..31,
\* 58..92 (the characters are what the font is asked to render).
VietItems ==
  [k \in 1..66 |-> IF k <= 28 THEN k - 1 ELSE IF k <= 31 THEN k ELSE k + 26]

KEEP_FROM_ORIGINAL == (32..57) \cup {28} \cup (93..127)

\* Base atlases, after convert("L"): a checkerboard of two grey levels
\* (equal levels give a uniform image, 0 and 255 a clean bilevel one).
Levels == {0, 100, 255}
BaseImage(a, b) ==
  [p \in Pixels |-> IF (PX(p) + PY(p)) % 2 = 0 THEN a ELSE b]
BaseImages ==
  {BaseImage(ab[1], ab[2]) : ab \in {q \in Levels \X Levels : q[1] <= q[2]}}

\* A rasterization source, as create_viet_font sees it: the box textbbox
\* returns for a glyph drawn at (0, 0), and the coverage draw.text puts on
\* the pixels of that box (255 solid, less where the glyph is anti-aliased).
\* A source that renders no ink returns the empty box.
InkSizes == {tile_size - 3, MaxInk}
Fonts ==
  {[bbox |-> <<0, 0, 0, 0>>, cov |-> 0]}
    \cup {[bbox |-> <<o[1], o[2], o[1] + w, o[2] + h>>, cov |-> c] :
            o \in {<<0, 0>>, <<1, 2>>}, w \in InkSizes, h \in InkSizes,
            c \in {100, 255}}

\* draw.text with fill=0 on a pixel of value v under coverage c
Blend(v, c) == (v * (255 - c)) \div 255

\* One turn of the drawing loop for a position that is not kept: the tile
\* is cleared to white, then the glyph is drawn where the code puts it.
\* the image with tile (x, y) cleared and the box [l, r) x [t, b) inked
Paint(im, x, y, l, t, r, b, c) ==
  [p \in Pixels |->
     LET px == p % Width
         py == p \div Width
         cleared == IF /\ px >= x /\ px <= x + tile_size - 1
                       /\ py >= y /\ py <= y + tile_size - 1
                      THEN 255 ELSE im[p]
     IN  IF px >= l /\ px < r /\ py >= t /\ py < b
           THEN Blend(cleared, c) ELSE cleared]

DrawGlyph(im, pos, f) ==
  LET cols == Width \div tile_size
      col == pos % cols
      row == pos \div cols
      x == col * tile_size
      y == row * tile_size
      text_width == f.bbox[3] - f.bbox[1]
      text_x == x + ((tile_size - text_width) \div 2) - f.bbox[1]
      text_y == y + 1 - f.bbox[2]
  IN  IF y >= Height THEN im   \* all of it lies below the image: clipped
      ELSE Paint(im, x, y, text_x + f.bbox[1], text_y + f.bbox[2],
                 text_x + f.bbox[3], text_y + f.bbox[4], f.cov)

\* img.point(lambda x: 0 if x < 128 else 255)
Threshold(v) == IF v < 128 THEN 0 ELSE 255

\* a conversion that stores a set pixel as 1
Convert1AsBit(v) == IF v > 128 THEN 1 ELSE 0

\* img.convert("1") on one pixel; the image is bilevel by then, so the
\* dithering carries no error from pixel to pixel
Convert1(v) == IF v > 128 THEN 255 ELSE 0

\* len(img.getcolors())
Colors(im) == {im[p] : p \in DOMAIN im}

InitGen ==
  /\ base_exists \in BOOLEAN
  \* original stands for the atlas file at original_path, then for its copy
  \* in memory
  /\ original \in (IF base_exists THEN BaseImages ELSE {<< >>})
  /\ font \in (IF base_exists THEN Fonts ELSE {<< >>})
  /\ font_src \in (IF base_exists THEN {"custom", "system", "default"}
                                  ELSE {"none"})
  /\ img = << >> /\ img_bw = << >>
  /\ items_i = 0 /\ chars_drawn = 0
  /\ disk = << >> /\ gout = << >> /\ gexit = -1
  /\ gpc = "start"
  /\ LenIdle /\ ChkIdle

\* "Load original font": the file is missing, the run prints the error and
\* exits with 1
AbortMissing ==
  /\ gpc = "start" /\ ~base_exists
  /\ gout' = Append(gout, [kind |-> "error_not_found"])
  /\ gexit' = 1
  /\ gpc' = "aborted"
  /\ UNCHANGED <<base_exists, original, font, font_src, img, img_bw,
                 items_i, chars_drawn, disk, lenVars, chkVars>>

\* the atlas is opened and copied
Load ==
  /\ gpc = "start" /\ base_exists
  /\ img' = original
  /\ gout' = Append(gout, [kind |-> "original_font"])
  /\ gpc' = "font"
  /\ UNCHANGED <<base_exists, original, font, font_src, img_bw,
                 items_i, chars_drawn, disk, gexit, lenVars, chkVars>>

\* the fallback chain has settled on font_src
SelectFont ==
  /\ gpc = "font"
  /\ gout' = Append(gout, [kind |-> "using_font", src |-> font_src])
  /\ items_i' = 1
  /\ gpc' = "draw"
  /\ UNCHANGED <<base_exists, original, font, font_src, img, img_bw,
                 chars_drawn, disk, gexit, lenVars, chkVars>>

\* one turn of "for pos, char in VIET_CHAR_POSITIONS.items()"
DrawNext ==
  /\ gpc = "draw" /\ items_i <= Len(VietItems)
  /\ IF VietItems[items_i] \in KEEP_FROM_ORIGINAL
       THEN UNCHANGED <<img, chars_drawn>>
       ELSE /\ img' = DrawGlyph(img, VietItems[items_i], font)
            /\ chars_drawn' = chars_drawn + 1
  /\ items_i' = items_i + 1
  /\ UNCHANGED <<base_exists, original, font, font_src, img_bw,
                 disk, gout, gexit, gpc, lenVars, chkVars>>

\* the loop is over: "Drew n" is printed and the image is thresholded
PointThreshold ==
  /\ gpc = "draw" /\ items_i > Len(VietItems)
  /\ gout' = Append(gout, [kind |-> "drew", n |-> chars_drawn])
  /\ img' = [p \in Pixels |-> Threshold(img[p])]
  /\ gpc' = "convert"
  /\ UNCHANGED <<base_exists, original, font, font_src, img_bw,
                 items_i, chars_drawn, disk, gexit, lenVars, chkVars>>

ConvertTo1 ==
  /\ gpc = "convert"
  /\ img_bw' = [p \in Pixels |-> Convert1(img[p])]
  /\ gpc' = "save"
  /\ UNCHANGED <<base_exists, original, font, font_src, img,
                 items_i, chars_drawn, disk, gout, gexit, lenVars, chkVars>>

\* a save placed before the threshold and the conversion
SaveBeforeThreshold ==
  /\ gpc = "draw" /\ items_i > Len(VietItems) /\ disk = << >>
  /\ disk' = Append(disk, img)
  /\ gout' = Append(gout, [kind |-> "saved"])
  /\ UNCHANGED <<base_exists, original, font, font_src, img, img_bw,
                 items_i, chars_drawn, gexit, gpc, lenVars, chkVars>>

\* img_bw.save(output_path); disk is what has been written to output_path
Save ==
  /\ gpc = "save"
  /\ disk' = Append(disk, img_bw)
  /\ gout' = Append(gout, [kind |-> "saved"])
  /\ gpc' = "verify"
  /\ UNCHANGED <<base_exists, original, font, font_src, img, img_bw,
                 items_i, chars_drawn, gexit, lenVars, chkVars>>

\* "Verify color count": the count is printed and the function returns
VerifyColors ==
  /\ gpc = "verify"
  /\ gout' = Append(gout, [kind |-> "colors",
                           n |-> Cardinality(Colors(img_bw))])
  /\ gexit' = 0
  /\ gpc' = "done"
  /\ UNCHANGED <<base_exists, original, font, font_src, img, img_bw,
                 items_i, chars_drawn, disk, lenVars, chkVars>>

NextGen ==
  \/ AbortMissing \/ Load \/ SelectFont \/ DrawNext
  \/ PointThreshold \/ ConvertTo1 \/ Save \/ VerifyColors

SpecGen == InitGen /\ [][NextGen]_vars

(***************************************************************************)
(* Claims about get_visible_length, checked under SpecLen.                 *)
(***************************************************************************)
\* t[i..j] has the form '<' + one or more non-'>' characters + '>'
IsToken(t, i, j) ==
  /\ t[i] = "<" /\ t[j] = ">" /\ j >= i + 2
  /\ \A m \in (i+1)..(j-1) : t[m] # ">"

\* the positions of t that lie in some substring of that form
InToken(t) ==
  {k \in 1..Len(t) : \E i \in 1..k, j \in k..Len(t) : IsToken(t, i, j)}

\* t without the positions in S, order kept
RECURSIVE Without(_, _, _)
Without(t, S, k) ==
  IF k > Len(t) THEN << >>
  ELSE (IF k \in S THEN << >> ELSE <<t[k]>>) \o Without(t, S, k + 1)

\* C2: get_visible_length(text) is the number of characters left after
\* removing every substring '<' + one-or-more non-'>' + '>', each remaining
\* character counting 1: only tokens gives 0, no token gives the character
\* count, the empty text gives 0.
C2_VisibleLength ==
  lpc = "return" =>
    /\ visible = Without(text, InToken(text), 1)
    /\ visible_len = Len(text) - Cardinality(InToken(text))
    /\ (InToken(text) = 1..Len(text) => visible_len = 0)
    /\ (InToken(text) = {} => visible_len = Len(text))
    /\ (text = << >> => visible_len = 0)

\* a text that mixes a removed token with literal characters has been measured
C2_Witness ==
  /\ lpc = "return"
  /\ InToken(text) # {}
  /\ visible_len > 0
  /\ visible_len < Len(text)

\* t[i] is a '<' that no '>' closes before the next '<' or the end of t
Unterminated(t, i) ==
  /\ t[i] = "<"
  /\ LET br == {j \in (i+1)..Len(t) : t[j] \in {"<", ">"}}
     IN  br = {} \/ t[Min(br)] = "<"

\* the last position of the run that starts at an unterminated '<'
RunEnd(t, i) ==
  LET br == {j \in (i+1)..Len(t) : t[j] \in {"<", ">"}}
  IN  IF br = {} THEN Len(t) ELSE Min(br) - 1

\* C3 as stated: every '<' not closed before the next '<' or the end of the
\* text, and the characters after it, are kept as literal characters; only
\* well-formed tokens before and after that run are removed.
C3_UnterminatedIsLiteral ==
  lpc = "return" =>
    \A i \in 1..Len(text) :
      Unterminated(text, i) =>
        visible = ControlCodeSub(SubSeq(text, 1, i - 1))
                    \o SubSeq(text, i, RunEnd(text, i))
                    \o ControlCodeSub(SubSeq(text, RunEnd(text, i) + 1, Len(text)))

\* t[i] is a '<' with no '>' anywhere after it
NoCloserAfter(t, i) ==
  /\ t[i] = "<"
  /\ \A j \in (i+1)..Len(t) : t[j] # ">"

\* C3 amended: the call returns, and a '<' with no '>' anywhere after it is
\* kept, with every character after it, as literal characters of width 1;
\* what precedes it is measured as usual.
C3_NoCloserIsLiteral ==
  lpc = "return" =>
    \A i \in 1..Len(text) :
      NoCloserAfter(text, i) =>
        /\ visible = ControlCodeSub(SubSeq(text, 1, i - 1))
                       \o SubSeq(text, i, Len(text))
        /\ visible_len = get_visible_length(SubSeq(text, 1, i - 1))
                           + (Len(text) - i + 1)

\* a text with a removed token followed by an unterminated '<' and more
\* characters has been measured
C3_Witness ==
  /\ lpc = "return"
  /\ \E i \in 2..Len(text) :
       /\ NoCloserAfter(text, i)
       /\ i < Len(text)
       /\ InToken(text) # {}

(***************************************************************************)
(* Claims about the validator, checked under SpecCheck.                    *)
(***************************************************************************)
Range(q) == {q[k] : k \in 1..Len(q)}

\* the (file, line) places of the literals check_file has read
ScannedPlaces ==
  {<<i, k>> \in (1..Len(Inputs)) \X (1..MaxLines) :
     /\ IsChecked(Inputs[i]) /\ CanOpen(Inputs[i])
     /\ k <= Len(Inputs[i].lines)
     /\ DbMatch(Inputs[i].lines[k])}

WidthAt(pl) == get_visible_length(DbGroup1(Inputs[pl[1]].lines[pl[2]]))

\* the scanned literals wider than the configured maximum
OverMax == {pl \in ScannedPlaces : WidthAt(pl) > max_length}

\* the places the run reports
ReportedPlaces == {<<e.file, e.line>> : e \in Range(all_errors)}

\* C1: for every configured max_length (the default, above it, below it) the
\* reported violations are exactly the scanned literals whose visible width
\* is strictly greater than max_length.
C1_ReportedExactlyOverMax ==
  pc = "exited" =>
    /\ ReportedPlaces = OverMax
    /\ \A e \in Range(all_errors) :
         e.length = WidthAt(<<e.file, e.line>>) /\ e.max = max_length

\* C4: a file whose basename is in the exclusion set contributes no
\* violation, reached by traversal or given as an explicit file; an explicit
\* file that is not excluded is checked.
C4_ExcludedContributeNothing ==
  pc = "exited" =>
    /\ \A e \in Range(all_errors) :
         Inputs[e.file].name \notin EXCLUDE_FILES
    /\ \A i \in 1..Len(Inputs) :
         (Explicit /\ Inputs[i].name \notin EXCLUDE_FILES
            /\ CanOpen(Inputs[i]))
           => \A pl \in OverMax : pl[1] = i => pl \in ReportedPlaces

\* an input the run has to read that is missing or cannot be opened
FailingInputs ==
  {i \in 1..Len(Inputs) :
     /\ ~CanOpen(Inputs[i])
     /\ (Explicit \/ Inputs[i].name \notin EXCLUDE_FILES)}

\* the violations of the readable files of the run
ReadableViolations ==
  {<<i, k>> \in (1..Len(Inputs)) \X (1..MaxLines) :
     /\ CanOpen(Inputs[i])
     /\ (Explicit \/ Inputs[i].name \notin EXCLUDE_FILES)
     /\ k <= Len(Inputs[i].lines)
     /\ DbMatch(Inputs[i].lines[k])
     /\ get_visible_length(DbGroup1(Inputs[i].lines[k])) > MAX_LINE_LENGTH
     /\ get_visible_length(DbGroup1(Inputs[i].lines[k])) > max_length}

PrintedPlaces ==
  {<<m.file, m.line>> : m \in {x \in Range(stdout) : x.kind = "error"}}

\* C5: a run whose inputs include a missing or unreadable file does not end
\* with the success message and exit code 0, and the violations of the
\* readable files of the run are still reported.
C5_BadFileSurfaced ==
  (pc \in {"exited", "crashed"} /\ FailingInputs # {}) =>
    /\ ~(exit_code = 0 /\ stdout # << >>
           /\ stdout[Len(stdout)].kind = "all_within")
    /\ ReadableViolations \subseteq PrintedPlaces

\* C6: the exit code is 1 iff some scanned literal is wider than the
\* configured maximum and warn-only is not set, it is 0 in every other
\* completed run, and every run prints the success summary or the
\* enumerated violations before it exits.
C6_ExitCode ==
  pc = "exited" =>
    /\ exit_code \in {0, 1}
    /\ (exit_code = 1 <=> (OverMax # {} /\ ~warn_only))
    /\ stdout # << >>
    /\ \/ stdout = <<[kind |-> "all_within", max |-> max_length]>>
       \/ /\ stdout[1].kind = "found"
          /\ PrintedPlaces = ReportedPlaces /\ PrintedPlaces # {}

(***************************************************************************)
(* Claims about the generator, checked under SpecGen.                      *)
(***************************************************************************)
\* the image the run holds: the working copy, then the 1-bit image
Current == IF gpc \in {"save", "verify", "done"} THEN img_bw ELSE img

\* the slot whose 8x8 cell holds pixel p
SlotOf(p) == (PY(p) \div tile_size) * TileCols + (PX(p) \div tile_size)

\* C7: for every base atlas and every rasterization source, every pixel of
\* the cell of every protected slot equals the same pixel of the base atlas:
\* neither clearing and drawing a mapped slot nor the final threshold
\* changes a protected slot's cell.
C7_ProtectedCellsPreserved ==
  gpc \in {"font", "draw", "convert", "save", "verify", "done"} =>
    \A p \in Pixels :
      SlotOf(p) \in KEEP_FROM_ORIGINAL => Current[p] = original[p]

MessageKinds(out) == [k \in 1..Len(out) |-> out[k].kind]
SuccessKinds == <<"original_font", "using_font", "drew", "saved", "colors">>

\* C9: when the output does not have exactly 2 colours the run reports a
\* diagnostic distinct from the messages of a successful run: it does not
\* end as a normal saved-and-done success.
C9_PostconditionReported ==
  (gpc = "done" /\ Cardinality(Colors(img_bw)) # 2) =>
    (MessageKinds(gout) # SuccessKinds \/ gexit # 0)

\* the number of positions the loop draws
DrawnPositions ==
  Cardinality({k \in 1..Len(VietItems) :
                 VietItems[k] \notin KEEP_FROM_ORIGINAL})

\* C10: the output path is written at most once, and only after every
\* mapped cell is drawn and the whole image is thresholded and converted;
\* when the base atlas is missing the run aborts with a non-zero outcome and
\* the output path is never written.
C10_WriteOnceWhenComplete ==
  /\ Len(disk) <= 1
  /\ disk # << >> =>
       /\ gpc \in {"verify", "done"}
       /\ items_i > Len(VietItems)
       /\ chars_drawn = DrawnPositions
       /\ \A p \in Pixels : img[p] \in {0, 255}
       /\ img_bw = [p \in Pixels |-> Convert1(img[p])]
       /\ disk[1] = img_bw
  /\ ~base_exists =>
       /\ disk = << >>
       /\ gpc \in {"start", "aborted"}
       /\ (gpc = "aborted" => gexit = 1)
  /\ gpc = "done" => disk # << >>

\* a run over an existing base atlas has ended with the output written
C10_Witness ==
  /\ gpc = "done"
  /\ base_exists
  /\ Len(disk) = 1
  /\ chars_drawn > 0

=============================================================================
